---- MODULE Spec2Model ----
(***************************************************************************)
(* Warehouse dashboard: the waypoint resolution of app.py (tab 2) and the  *)
(* frame synthesis of ui_components.create_multi_route_animation.          *)
(*                                                                         *)
(* Three entry points share one state machine:                             *)
(*   - the tab-2 script of app.py, which looks the two node lists up in    *)
(*     node_coords and builds the two waypoint paths (pc = "app_*");       *)
(*   - a call of create_multi_route_animation(layout_df,                   *)
(*     route_definitions, steps_between, dwell_time) (pc = "call" ...);    *)
(*   - a WarehouseDataLoader of data_loader.py, whose methods are called   *)
(*     in any order (pc = "loader").                                       *)
(*                                                                         *)
(* Positions are rationals with denominator Scale = max(steps_between-1,1).*)
(* Every frame coordinate is stored multiplied by Scale, so that the       *)
(* interior points of np.linspace are integers.  The first and the last    *)
(* point of np.linspace are exact in numpy as well (0*step + start, and    *)
(* the explicit y[-1] = stop).                                             *)
(***************************************************************************)
EXTENDS Integers, Sequences, FiniteSets, TLC

\* ---- bounds of the model ----
NumRacks == 2
MaxStops == 3
MaxRoutes == 2
MaxSteps == 3
MaxDwell == 1
LongExtra == 2
NumScenarios == 1
MaxRows == 5

\* if is_finished and k > 50
DoneAfter == 50

VARIABLES
    pc,                     \* position in the running script / call
    node_ids,               \* keys of node_coords (app.py:468)
    CURRENT_ROUTE_NODES,    \* app.py:431
    OPTIMIZED_ROUTE_NODES,  \* app.py:448
    current_route_coords,   \* app.py:474
    optimized_route_coords, \* app.py:475
    has_start,              \* layout_df has a 'Start' row
    route_definitions,      \* the "coords" of each route definition
    steps_between,
    dwell_time,
    start_coords,
    route_frames_data,
    max_frames,
    r,                      \* index of the route loops (1-based)
    i,                      \* index of the segment loop (0-based, as in the code)
    route_x_frames,
    route_y_frames,
    progress_frames,
    is_picking_frames,
    stop_number,
    total_stops,
    raw_frames_data,        \* route_frames_data as appended, before the sync loop
    k,                      \* index of the frame loop (0-based)
    is_finished,            \* is_finished[r][k+1]: the flag computed for route r in frame k
    done_shown,             \* done_shown[r][k+1]: the checkmark and DONE are shown for route r in frame k
    layout_data,            \* self.layout_data (data_loader.py:15)
    optimization_results,   \* self.optimization_results (data_loader.py:16)
    loader_result           \* the last method call on the loader and its outcome

appVars == <<node_ids, CURRENT_ROUTE_NODES, OPTIMIZED_ROUTE_NODES,
             current_route_coords, optimized_route_coords>>
inVars == <<has_start, route_definitions, steps_between, dwell_time>>
locVars == <<i, route_x_frames, route_y_frames, progress_frames,
             is_picking_frames, stop_number, total_stops>>
loaderVars == <<layout_data, optimization_results, loader_result>>
vars == <<pc, appVars, inVars, start_coords, route_frames_data, max_frames, r,
          locVars, raw_frames_data, k, is_finished, done_shown, loaderVars>>

\* ---- helpers ----
SeqsUpTo(S, n) == UNION {[1..m -> S] : m \in 0..n}

Abs(v) == IF v < 0 THEN -v ELSE v

\* Python's [v] * n: empty when n <= 0
Rep(v, n) == [j \in 1..(IF n > 0 THEN n ELSE 0) |-> v]

\* the layout sheet: 'Start' is node 0, 'Rack id' is node id
Coord(id) ==
    IF id = 0 THEN [x |-> 2, y |-> 1]
    ELSE [x |-> 2 + 2 * id, y |-> 1 + 2 * (id % 2)]

\* node_coords = layout_data_copy.set_index('node_id')[['x','y']].to_dict('index')
node_coords == [id \in node_ids |-> Coord(id)]

\* mutant: the return to the depot is left out
RouteCoords_NoReturn(table, nodes) ==
    <<table[0]>> \o [j \in 1..Len(nodes) |-> table[nodes[j]]]

\* [start_coords] + [node_coords[node] for node in nodes] + [start_coords]
RouteCoords(table, nodes) ==
    <<table[0]>> \o [j \in 1..Len(nodes) |-> table[nodes[j]]] \o <<table[0]>>

\* a lookup node_coords[node] raises KeyError
MissingKey(nodes) == \E j \in 1..Len(nodes) : nodes[j] \notin node_ids

\* denominator of the stored positions
Scale == IF steps_between > 1 THEN steps_between - 1 ELSE 1

\* np.linspace(a, b, num) for num >= 0, times Scale
Linspace(a, b, num) ==
    IF num <= 0 THEN <<>>
    ELSE IF num = 1 THEN <<a * Scale>>
    ELSE [t \in 1..num |-> a * Scale + (t - 1) * (b - a)]

\* mutant: the first segment counts as a stop too
NextStopNumber_CountFirst(sn, idx, n) == IF idx < n - 1 THEN sn + 1 ELSE sn

\* if i > 0 and i < len(coord_path) - 1: stop_number += 1
NextStopNumber(sn, idx, n) == IF idx > 0 /\ idx < n - 1 THEN sn + 1 ELSE sn

\* mutant: the dwell at the last stop is left out as well
Dwells_OffByOne(idx, n) == idx < n - 3

\* mutant: the agent also dwells at the final depot
Dwells_Always(idx, n) == idx < n - 1

\* if i < len(coord_path) - 2: the dwell frames are appended
Dwells(idx, n) == idx < n - 2

\* mutant: the padding repeats the first frame instead of the last
PadRoute_First(rd, mf) ==
    LET padding_needed == mf - Len(rd.x)
    IN [rd EXCEPT !.x = @ \o Rep(rd.x[1], padding_needed),
                  !.y = @ \o Rep(rd.y[1], padding_needed),
                  !.progress = @ \o Rep(rd.progress[1], padding_needed),
                  !.picking = @ \o Rep(FALSE, padding_needed)]

\* mutant: the padding resets the stop index, as the fill of an empty route does
PadRoute_ZeroProgress(rd, mf) ==
    LET num_frames == Len(rd.x)
        padding_needed == mf - num_frames
    IN [rd EXCEPT !.x = @ \o Rep(rd.x[num_frames], padding_needed),
                  !.y = @ \o Rep(rd.y[num_frames], padding_needed),
                  !.progress = @ \o Rep(0, padding_needed),
                  !.picking = @ \o Rep(FALSE, padding_needed)]

\* mutant: the padding frames carry the route's total_stops
PadRoute_FinalStop(rd, mf) ==
    LET num_frames == Len(rd.x)
        padding_needed == mf - num_frames
    IN [rd EXCEPT !.x = @ \o Rep(rd.x[num_frames], padding_needed),
                  !.y = @ \o Rep(rd.y[num_frames], padding_needed),
                  !.progress = @ \o Rep(rd.total_stops, padding_needed),
                  !.picking = @ \o Rep(FALSE, padding_needed)]

\* the sync loop body for a route with 0 < num_frames < max_frames
PadRoute(rd, mf) ==
    LET num_frames == Len(rd.x)
        padding_needed == mf - num_frames
    IN [rd EXCEPT !.x = @ \o Rep(rd.x[num_frames], padding_needed),
                  !.y = @ \o Rep(rd.y[num_frames], padding_needed),
                  !.progress = @ \o Rep(rd.progress[num_frames], padding_needed),
                  !.picking = @ \o Rep(FALSE, padding_needed)]

\* mutant: a route without frames is left without frames
FillRoute_Empty(mf) ==
    [x |-> <<>>, y |-> <<>>, progress |-> <<>>, picking |-> <<>>, total_stops |-> 0]

\* the sync loop body for a route with num_frames == 0
FillRoute(mf) ==
    [x |-> Rep(start_coords.x * Scale, mf),
     y |-> Rep(start_coords.y * Scale, mf),
     progress |-> Rep(0, mf),
     picking |-> Rep(FALSE, mf),
     total_stops |-> 0]

\* is_finished of route rd in frame kk (0-based)
IsFinished(rd, kk) ==
    /\ rd.progress[kk + 1] >= rd.total_stops
    /\ Abs(rd.x[kk + 1] - start_coords.x * Scale) < Scale
    /\ Abs(rd.y[kk + 1] - start_coords.y * Scale) < Scale

\* mutant: the indicator is shown from frame 50 on
ShowsDone_FromThreshold(kk) == kk >= DoneAfter

\* and k > 50: the frames in which a finished agent is shown as finished
ShowsDone(kk) == kk > DoneAfter

\* ---- inputs ----
NodeLists == SeqsUpTo(1..NumRacks, MaxStops)
FullTable == [id \in 0..NumRacks |-> Coord(id)]
\* the coords of one route: none, the depot alone, or any waypoint path over the table
CoordPaths == {<<>>, <<FullTable[0]>>} \cup {RouteCoords(FullTable, s) : s \in NodeLists}
\* the coords of a route among several: none, or the tour of the first m racks in turn
Tour(m) == [j \in 1..m |-> ((j - 1) % NumRacks) + 1]
TourPaths == {<<>>} \cup {RouteCoords(FullTable, Tour(m)) : m \in 0..MaxStops}
RouteLists == SeqsUpTo(CoordPaths, 1) \cup SeqsUpTo(TourPaths, MaxRoutes)

NoLocals ==
    /\ i = 0
    /\ route_x_frames = <<>>
    /\ route_y_frames = <<>>
    /\ progress_frames = <<>>
    /\ is_picking_frames = <<>>
    /\ stop_number = 0
    /\ total_stops = 0

\* optimization_results: None, or the DataFrame built from the list results
NoTable == [none |-> TRUE, rows |-> <<>>]

DataFrame(results) == [none |-> FALSE, rows |-> results]

\* self.layout_data = None; self.optimization_results = None
NoLoader ==
    /\ layout_data = "None"
    /\ optimization_results = NoTable
    /\ loader_result = [op |-> "none", arg |-> 0, error |-> FALSE, value |-> <<>>]

NoCall ==
    /\ start_coords = [x |-> 0, y |-> 0]
    /\ route_frames_data = <<>>
    /\ raw_frames_data = <<>>
    /\ max_frames = 0
    /\ r = 1
    /\ k = 0
    /\ is_finished = <<>>
    /\ done_shown = <<>>
    /\ NoLocals
    /\ NoLoader

InitApp ==
    /\ pc = "app_start"
    /\ node_ids \in SUBSET (0..NumRacks)
    /\ CURRENT_ROUTE_NODES \in NodeLists
    /\ OPTIMIZED_ROUTE_NODES \in NodeLists
    /\ current_route_coords = <<>>
    /\ optimized_route_coords = <<>>
    /\ has_start = FALSE
    /\ route_definitions = <<>>
    /\ steps_between = 5
    /\ dwell_time = 3
    /\ NoCall

InitCall ==
    /\ pc = "call"
    /\ node_ids = {}
    /\ CURRENT_ROUTE_NODES = <<>>
    /\ OPTIMIZED_ROUTE_NODES = <<>>
    /\ current_route_coords = <<>>
    /\ optimized_route_coords = <<>>
    /\ has_start \in BOOLEAN
    /\ route_definitions \in RouteLists
    /\ steps_between \in -1..MaxSteps
    /\ dwell_time \in -1..MaxDwell
    /\ NoCall

\* calls whose animation runs up to and past frame DoneAfter
LongRouteLists ==
    {<<RouteCoords(FullTable, <<>>)>>,
     <<RouteCoords(FullTable, <<>>), RouteCoords(FullTable, Tour(1))>>}

InitLong ==
    /\ pc = "call"
    /\ node_ids = {}
    /\ CURRENT_ROUTE_NODES = <<>>
    /\ OPTIMIZED_ROUTE_NODES = <<>>
    /\ current_route_coords = <<>>
    /\ optimized_route_coords = <<>>
    /\ has_start \in BOOLEAN
    /\ route_definitions \in LongRouteLists
    /\ steps_between \in DoneAfter..(DoneAfter + LongExtra)
    /\ dwell_time = 0
    /\ NoCall

\* loader = WarehouseDataLoader(excel_file_path)
InitLoader ==
    /\ pc = "loader"
    /\ node_ids = {}
    /\ CURRENT_ROUTE_NODES = <<>>
    /\ OPTIMIZED_ROUTE_NODES = <<>>
    /\ current_route_coords = <<>>
    /\ optimized_route_coords = <<>>
    /\ has_start = FALSE
    /\ route_definitions = <<>>
    /\ steps_between = 5
    /\ dwell_time = 3
    /\ NoCall

Init == InitApp \/ InitCall \/ InitLong \/ InitLoader

\* ---- app.py, tab 2 ----
callVars == <<inVars, start_coords, route_frames_data, max_frames, r, locVars,
              raw_frames_data, k, is_finished, done_shown>>

\* start_coords = node_coords[0]
AppStart ==
    /\ pc = "app_start"
    /\ pc' = IF 0 \in node_ids THEN "app_current" ELSE "KeyError"
    /\ UNCHANGED <<loaderVars, appVars, callVars>>

\* mutant: nodes missing from node_coords are skipped
ResolveCurrent_SkipMissing ==
    /\ pc = "app_current"
    /\ pc' = "app_optimized"
    /\ LET Known(id) == id \in node_ids
       IN current_route_coords' =
              RouteCoords(node_coords, SelectSeq(CURRENT_ROUTE_NODES, Known))
    /\ UNCHANGED <<loaderVars, node_ids, CURRENT_ROUTE_NODES, OPTIMIZED_ROUTE_NODES,
                               optimized_route_coords, callVars>>

\* current_route_coords = [start_coords] + [...] + [start_coords]
ResolveCurrent ==
    /\ pc = "app_current"
    /\ IF MissingKey(CURRENT_ROUTE_NODES)
       THEN pc' = "KeyError" /\ UNCHANGED current_route_coords
       ELSE /\ pc' = "app_optimized"
            /\ current_route_coords' = RouteCoords(node_coords, CURRENT_ROUTE_NODES)
    /\ UNCHANGED <<loaderVars, node_ids, CURRENT_ROUTE_NODES, OPTIMIZED_ROUTE_NODES,
                               optimized_route_coords, callVars>>

\* optimized_route_coords = [start_coords] + [...] + [start_coords]
ResolveOptimized ==
    /\ pc = "app_optimized"
    /\ IF MissingKey(OPTIMIZED_ROUTE_NODES)
       THEN pc' = "KeyError" /\ UNCHANGED optimized_route_coords
       ELSE /\ pc' = "resolved"
            /\ optimized_route_coords' = RouteCoords(node_coords, OPTIMIZED_ROUTE_NODES)
    /\ UNCHANGED <<loaderVars, node_ids, CURRENT_ROUTE_NODES, OPTIMIZED_ROUTE_NODES,
                               current_route_coords, callVars>>

\* ---- create_multi_route_animation ----
\* the position and the loop index after the body of route loop iteration idx
AfterRoute(idx) == IF idx >= Len(route_definitions) THEN "sync" ELSE "route"
NextIndex(idx) == IF idx >= Len(route_definitions) THEN 1 ELSE idx + 1

\* route_frames_data = [], max_frames = 0, start_coords from the 'Start' row
GetStartCoords ==
    /\ pc = "call"
    /\ start_coords' = IF has_start THEN Coord(0) ELSE [x |-> 0, y |-> 0]
    /\ route_frames_data' = <<>>
    /\ max_frames' = 0
    /\ r' = 1
    /\ pc' = IF Len(route_definitions) = 0 THEN "traces" ELSE "route"
    /\ UNCHANGED <<loaderVars, appVars, inVars, locVars, raw_frames_data, k, is_finished, done_shown>>

\* if not coord_path: append the empty record and continue
RouteEmpty ==
    /\ pc = "route"
    /\ route_definitions[r] = <<>>
    /\ route_frames_data' = Append(route_frames_data,
            [x |-> <<>>, y |-> <<>>, progress |-> <<>>, picking |-> <<>>])
    /\ raw_frames_data' = route_frames_data'
    /\ r' = NextIndex(r)
    /\ pc' = AfterRoute(r)
    /\ i' = 0
    /\ route_x_frames' = <<>>
    /\ route_y_frames' = <<>>
    /\ progress_frames' = <<>>
    /\ is_picking_frames' = <<>>
    /\ UNCHANGED <<loaderVars, appVars, inVars, start_coords, max_frames, stop_number,
                               total_stops, k, is_finished, done_shown>>

\* the per-route lists, stop_number = 0, total_stops = len(coord_path) - 2
RouteBegin ==
    /\ pc = "route"
    /\ route_definitions[r] # <<>>
    /\ route_x_frames' = <<>>
    /\ route_y_frames' = <<>>
    /\ progress_frames' = <<>>
    /\ is_picking_frames' = <<>>
    /\ stop_number' = 0
    /\ total_stops' = Len(route_definitions[r]) - 2
    /\ i' = 0
    /\ pc' = "segment"
    /\ UNCHANGED <<loaderVars, appVars, inVars, start_coords, route_frames_data, max_frames,
                               r, raw_frames_data, k, is_finished, done_shown>>

\* one iteration of: for i in range(len(coord_path) - 1)
Segment ==
    /\ pc = "segment"
    /\ i < Len(route_definitions[r]) - 1
    /\ steps_between >= 0
    /\ LET coord_path == route_definitions[r]
           n == Len(coord_path)
           start_point == coord_path[i + 1]
           end_point == coord_path[i + 2]
           sn == NextStopNumber(stop_number, i, n)
           dw == IF Dwells(i, n) THEN dwell_time ELSE 0
       IN /\ route_x_frames' = route_x_frames
                \o Linspace(start_point.x, end_point.x, steps_between)
                \o Rep(end_point.x * Scale, dw)
          /\ route_y_frames' = route_y_frames
                \o Linspace(start_point.y, end_point.y, steps_between)
                \o Rep(end_point.y * Scale, dw)
          /\ progress_frames' = progress_frames
                \o Rep(stop_number, steps_between) \o Rep(sn, dw)
          /\ is_picking_frames' = is_picking_frames
                \o Rep(FALSE, steps_between) \o Rep(TRUE, dw)
          /\ stop_number' = sn
    /\ i' = i + 1
    /\ UNCHANGED <<loaderVars, pc, appVars, inVars, start_coords, route_frames_data,
                               max_frames, r, total_stops, raw_frames_data, k, is_finished, done_shown>>

\* np.linspace raises ValueError for a negative number of samples
SegmentError ==
    /\ pc = "segment"
    /\ i < Len(route_definitions[r]) - 1
    /\ steps_between < 0
    /\ pc' = "ValueError"
    /\ UNCHANGED <<loaderVars, appVars, callVars>>

\* route_frames_data.append({...}); max_frames = max(max_frames, len)
RouteEnd ==
    /\ pc = "segment"
    /\ i >= Len(route_definitions[r]) - 1
    /\ route_frames_data' = Append(route_frames_data,
            [x |-> route_x_frames, y |-> route_y_frames,
             progress |-> progress_frames, picking |-> is_picking_frames,
             total_stops |-> total_stops])
    /\ raw_frames_data' = route_frames_data'
    /\ max_frames' = IF Len(route_x_frames) > max_frames
                     THEN Len(route_x_frames) ELSE max_frames
    /\ r' = NextIndex(r)
    /\ pc' = AfterRoute(r)
    /\ UNCHANGED <<loaderVars, appVars, inVars, start_coords, locVars, k, is_finished, done_shown>>

\* one iteration of: for i, route_data in enumerate(route_frames_data)
SyncedRoute(rd, mf) ==
    IF Len(rd.x) = 0 THEN FillRoute(mf)
    ELSE IF Len(rd.x) < mf THEN PadRoute(rd, mf)
    ELSE rd

SyncRoute ==
    /\ pc = "sync"
    /\ route_frames_data' = [route_frames_data EXCEPT
            ![r] = SyncedRoute(route_frames_data[r], max_frames)]
    /\ r' = NextIndex(r)
    /\ pc' = IF r >= Len(route_frames_data) THEN "traces" ELSE "sync"
    /\ UNCHANGED <<loaderVars, appVars, inVars, start_coords, max_frames, locVars,
                               raw_frames_data, k, is_finished, done_shown>>

\* mutant: the initial markers are built without reading frame 0
InitialTraces_NoRead ==
    /\ pc = "traces"
    /\ pc' = "frames"
    /\ k' = 0
    /\ is_finished' = [j \in 1..Len(route_definitions) |-> <<>>]
    /\ done_shown' = [j \in 1..Len(route_definitions) |-> <<>>]
    /\ UNCHANGED <<loaderVars, appVars, inVars, start_coords, route_frames_data, max_frames,
                               r, locVars, raw_frames_data>>

\* mutant: frame 0 is read even when there is no route
InitialTraces_Strict ==
    /\ pc = "traces"
    /\ pc' = IF max_frames = 0 THEN "IndexError" ELSE "frames"
    /\ k' = 0
    /\ is_finished' = [j \in 1..Len(route_definitions) |-> <<>>]
    /\ done_shown' = [j \in 1..Len(route_definitions) |-> <<>>]
    /\ UNCHANGED <<loaderVars, appVars, inVars, start_coords, route_frames_data, max_frames,
                               r, locVars, raw_frames_data>>

\* the initial agent markers read frame 0 of every route
InitialTraces ==
    /\ pc = "traces"
    /\ pc' = IF Len(route_definitions) > 0 /\ max_frames = 0
             THEN "IndexError" ELSE "frames"
    /\ k' = 0
    /\ is_finished' = [j \in 1..Len(route_definitions) |-> <<>>]
    /\ done_shown' = [j \in 1..Len(route_definitions) |-> <<>>]
    /\ UNCHANGED <<loaderVars, appVars, inVars, start_coords, route_frames_data, max_frames,
                               r, locVars, raw_frames_data>>

\* one iteration of: for k in range(max_frames)
Frame ==
    /\ pc = "frames"
    /\ k < max_frames
    /\ is_finished' = [j \in 1..Len(route_definitions) |->
            Append(is_finished[j], IsFinished(route_frames_data[j], k))]
    /\ done_shown' = [j \in 1..Len(route_definitions) |->
            Append(done_shown[j], IsFinished(route_frames_data[j], k) /\ ShowsDone(k))]
    /\ k' = k + 1
    /\ UNCHANGED <<loaderVars, pc, appVars, inVars, start_coords, route_frames_data,
                               max_frames, r, locVars, raw_frames_data>>

\* fig.frames = frames ... return fig
Return ==
    /\ pc = "frames"
    /\ k >= max_frames
    /\ pc' = "returned"
    /\ UNCHANGED <<loaderVars, appVars, callVars>>

\* ---- data_loader.py: WarehouseDataLoader ----
\* One row of the sheet 'Data Analysis (Comparison)', read with header=None:
\*   0                  column A is empty or holds another text; C and M are numeric or empty
\*   1..NumScenarios    column A holds "... Loadform n) ..."; C and M are numeric or empty
\*   NumScenarios + 1   column A is empty or holds another text; C and M hold text
\* float() of an empty cell is nan, float() of a text cell raises ValueError.
Sheets == SeqsUpTo(0..(NumScenarios + 1), MaxRows)

\* what pd.read_excel finds: no file or no such sheet, or a sheet
Workbooks ==
    {[readable |-> FALSE, sheet |-> <<>>]}
       \cup {[readable |-> TRUE, sheet |-> sh] : sh \in Sheets}

\* pd.notna(row[0]) and 'Loadform' in str(row[0]), at position p of the sheet (idx = p - 1)
IsHeader(sheet, p) == sheet[p] \in 1..NumScenarios

\* the content of column col at position p
Cell(p, col) == 100 * p + col

\* the header at position p raises: no row idx + 2, no row idx + 4, or a cell
\* of one of them that float() rejects
RowRaises(sheet, p) ==
    \/ p + 2 > Len(sheet)
    \/ p + 4 > Len(sheet)
    \/ sheet[p + 2] = NumScenarios + 1
    \/ sheet[p + 4] = NumScenarios + 1

\* the dict appended to results for the header at position p
ScenarioRecord(sheet, p) ==
    [Scenario |-> sheet[p],
     Distance_Optimized |-> Cell(p + 2, 2),
     Distance_Current |-> Cell(p + 2, 12),
     Time_Optimized |-> Cell(p + 4, 2),
     Time_Current |-> Cell(p + 4, 12)]

\* the positions of the headers, in the order of iterrows()
HeaderRows(sheet) ==
    SelectSeq([p \in 1..Len(sheet) |-> p], LAMBDA p : IsHeader(sheet, p))

\* results, when no row raised
ParsedResults(sheet) ==
    [j \in 1..Len(HeaderRows(sheet)) |-> ScenarioRecord(sheet, HeaderRows(sheet)[j])]

\* load_optimization_results raises: read_excel fails, a header raises, or
\* results is empty
LoadRaises(book) ==
    \/ ~book.readable
    \/ \E p \in 1..Len(book.sheet) : IsHeader(book.sheet, p) /\ RowRaises(book.sheet, p)
    \/ HeaderRows(book.sheet) = <<>>

\* mutant: self.optimization_results is assigned before "if not results"
ResultsAfterLoad_NoCheck(old, book) ==
    IF \/ ~book.readable
       \/ \E p \in 1..Len(book.sheet) : IsHeader(book.sheet, p) /\ RowRaises(book.sheet, p)
    THEN old
    ELSE DataFrame(ParsedResults(book.sheet))

\* self.optimization_results after load_optimization_results: assigned only at
\* line 108, once every header is parsed and results is not empty
ResultsAfterLoad(old, book) ==
    IF LoadRaises(book) THEN old ELSE DataFrame(ParsedResults(book.sheet))

\* optimization_results[optimization_results['Scenario'] == scenario_name]
ScenarioRows(table, scenario_name) ==
    SelectSeq(table.rows, LAMBDA rec : rec.Scenario = scenario_name)

\* get_scenario_data raises ValueError
GetRaises(table, scenario_name) ==
    table.none \/ ScenarioRows(table, scenario_name) = <<>>

load_warehouse_layout ==
    /\ pc = "loader"
    /\ \E layout_ok \in BOOLEAN :
          /\ layout_data' = IF layout_ok THEN "DataFrame" ELSE layout_data
          /\ loader_result' = [op |-> "load_warehouse_layout", arg |-> 0,
                               error |-> ~layout_ok, value |-> <<>>]
    /\ UNCHANGED <<pc, optimization_results, appVars, callVars>>

load_optimization_results ==
    /\ pc = "loader"
    /\ \E book \in Workbooks :
          /\ optimization_results' = ResultsAfterLoad(optimization_results, book)
          /\ loader_result' = [op |-> "load_optimization_results", arg |-> 0,
                               error |-> LoadRaises(book), value |-> <<>>]
    /\ UNCHANGED <<pc, layout_data, appVars, callVars>>

\* self.load_warehouse_layout(); self.load_optimization_results()
load_all_data ==
    /\ pc = "loader"
    /\ \/ /\ loader_result' = [op |-> "load_all_data", arg |-> 0,
                               error |-> TRUE, value |-> <<>>]
          /\ UNCHANGED <<layout_data, optimization_results>>
       \/ \E book \in Workbooks :
             /\ layout_data' = "DataFrame"
             /\ optimization_results' = ResultsAfterLoad(optimization_results, book)
             /\ loader_result' = [op |-> "load_all_data", arg |-> 0,
                                  error |-> LoadRaises(book), value |-> <<>>]
    /\ UNCHANGED <<pc, appVars, callVars>>

get_scenario_data ==
    /\ pc = "loader"
    /\ \E scenario_name \in 1..(NumScenarios + 1) :
          loader_result' =
             [op |-> "get_scenario_data", arg |-> scenario_name,
              error |-> GetRaises(optimization_results, scenario_name),
              value |-> IF GetRaises(optimization_results, scenario_name)
                        THEN <<>>
                        ELSE <<ScenarioRows(optimization_results, scenario_name)[1]>>]
    /\ UNCHANGED <<pc, layout_data, optimization_results, appVars, callVars>>

Next ==
    \/ AppStart
    \/ ResolveCurrent
    \/ ResolveOptimized
    \/ GetStartCoords
    \/ RouteEmpty
    \/ RouteBegin
    \/ Segment
    \/ SegmentError
    \/ RouteEnd
    \/ SyncRoute
    \/ InitialTraces
    \/ Frame
    \/ Return
    \/ load_warehouse_layout
    \/ load_optimization_results
    \/ load_all_data
    \/ get_scenario_data

Spec == Init /\ [][Next]_vars

\* ---- properties ----
\* the sync loop has run for every route
Synced == pc \in {"traces", "frames", "returned", "IndexError"}
\* the stored (scaled) position of a coordinate
AtX(c) == c.x * Scale
AtY(c) == c.y * Scale
RawLen(j) == Len(raw_frames_data[j].x)
Routes == 1..Len(route_definitions)
Appended == 1..Len(raw_frames_data)
ValidParams == steps_between >= 1 /\ dwell_time >= 0

PathIs(path, nodes) ==
    /\ Len(path) = Len(nodes) + 2
    /\ path[1] = Coord(0)
    /\ path[Len(nodes) + 2] = Coord(0)
    /\ \A j \in 1..Len(nodes) : path[j + 1] = Coord(nodes[j])

\* C1: once a route's lookups have all succeeded, its waypoint path is the
\* depot, then the coordinates of its stops in the given order (repeats kept),
\* then the depot again: len(stops) + 2 waypoints.
C1_PathConstruction ==
    /\ pc \in {"app_optimized", "resolved"}
          => PathIs(current_route_coords, CURRENT_ROUTE_NODES)
    /\ pc = "resolved" => PathIs(optimized_route_coords, OPTIMIZED_ROUTE_NODES)

C1_Witness ==
    /\ pc = "resolved"
    /\ Len(CURRENT_ROUTE_NODES) = 3
    /\ CURRENT_ROUTE_NODES[1] = CURRENT_ROUTE_NODES[3]
    /\ CURRENT_ROUTE_NODES[1] # CURRENT_ROUTE_NODES[2]
    /\ OPTIMIZED_ROUTE_NODES = <<>>
    /\ optimized_route_coords = <<Coord(0), Coord(0)>>

\* C2: with steps_between = S >= 1 and dwell_time = D >= 0, the frame lists
\* appended for a path of n >= 2 waypoints hold (n-1)*S + (n-2)*D frames.
C2_RawLength ==
    \A j \in Appended :
        LET n == Len(route_definitions[j])
            L == (n - 1) * steps_between + (n - 2) * dwell_time
        IN (n >= 2 /\ ValidParams) =>
              /\ Len(raw_frames_data[j].x) = L
              /\ Len(raw_frames_data[j].y) = L
              /\ Len(raw_frames_data[j].progress) = L
              /\ Len(raw_frames_data[j].picking) = L

C2_Witness ==
    \E j \in Appended :
        /\ Len(route_definitions[j]) = 4
        /\ steps_between = 3
        /\ dwell_time = 1
        /\ RawLen(j) = 11

\* C3: after the sync loop the x, y, progress and picking lists of every
\* route, the routes without coords included, have length max_frames, and
\* max_frames is the largest length appended by the route loop.
C3_SyncedLengths ==
    Synced =>
        /\ \A j \in 1..Len(route_frames_data) :
              /\ Len(route_frames_data[j].x) = max_frames
              /\ Len(route_frames_data[j].y) = max_frames
              /\ Len(route_frames_data[j].progress) = max_frames
              /\ Len(route_frames_data[j].picking) = max_frames
        /\ Len(route_frames_data) = Len(route_definitions)
        /\ \A j \in Appended : RawLen(j) <= max_frames
        /\ max_frames = 0 \/ \E j \in Appended : RawLen(j) = max_frames

C3_Witness ==
    /\ Synced
    /\ Len(route_definitions) = 2
    /\ route_definitions[1] = <<>>
    /\ max_frames = 6
    /\ RawLen(2) = 6

\* C4: a route with 0 < L < max_frames appended frames keeps its frames
\* 0..L-1 and every padding frame L..max_frames-1 repeats the position and
\* the stop index of frame L-1 and is not picking.
C4_PaddingHolds ==
    Synced =>
        \A j \in Appended :
            LET L == RawLen(j)
                rd == route_frames_data[j]
                raw == raw_frames_data[j]
            IN (0 < L /\ L < max_frames) =>
                  /\ \A kk \in (L + 1)..max_frames :
                        /\ rd.x[kk] = raw.x[L]
                        /\ rd.y[kk] = raw.y[L]
                        /\ rd.progress[kk] = raw.progress[L]
                        /\ rd.picking[kk] = FALSE
                  /\ \A kk \in 1..L :
                        /\ rd.x[kk] = raw.x[kk]
                        /\ rd.y[kk] = raw.y[kk]
                        /\ rd.progress[kk] = raw.progress[kk]
                        /\ rd.picking[kk] = raw.picking[kk]

C4_Witness ==
    /\ Synced
    /\ \E j \in Appended :
          /\ 0 < RawLen(j)
          /\ RawLen(j) + 2 <= max_frames
          /\ raw_frames_data[j].progress[RawLen(j)] = 1
          /\ raw_frames_data[j].picking[RawLen(j) - 1] = TRUE
          /\ route_frames_data[j].progress[max_frames] = 1

\* C5: every padding frame of a route that ends at the depot is flagged
\* finished (stated for a layout with a Start row, steps_between >= 2 and
\* dwell_time >= 0, where the last appended frame is the depot itself).
C5_PaddingFinished ==
    (pc = "returned" /\ has_start /\ steps_between >= 2 /\ dwell_time >= 0) =>
        \A j \in Routes :
            LET path == route_definitions[j]
            IN (path # <<>> /\ path[Len(path)] = Coord(0) /\ RawLen(j) < max_frames) =>
                  \A kk \in (RawLen(j) + 1)..max_frames : is_finished[j][kk]

\* C6: a frame flagged finished has the agent at the depot and is the last
\* appended frame of the route or a later one (stated for a layout with a
\* Start row and valid parameters).
C6_FinishedOnlyAtEnd ==
    (pc \in {"frames", "returned"} /\ has_start /\ ValidParams) =>
        \A j \in Routes :
            \A kk \in 1..Len(is_finished[j]) :
                is_finished[j][kk] =>
                    /\ route_frames_data[j].x[kk] = AtX(Coord(0))
                    /\ route_frames_data[j].y[kk] = AtY(Coord(0))
                    /\ kk >= RawLen(j)

\* C7: the stop index never decreases along a route's frame list, padding
\* frames included.
C7_MonotonicStopIndex ==
    \A j \in 1..Len(route_frames_data) :
        LET pr == route_frames_data[j].progress
        IN \A kk \in 1..(Len(pr) - 1) : pr[kk + 1] >= pr[kk]

C7_Witness ==
    /\ Synced
    /\ \E j \in Appended :
          /\ 0 < RawLen(j)
          /\ RawLen(j) < max_frames
          /\ route_frames_data[j].progress[1] = 0
          /\ route_frames_data[j].progress[RawLen(j)] = 1
          /\ dwell_time = 1

\* C8: with valid parameters the first appended frame of a path of n >= 2
\* waypoints is its first waypoint and the last appended frame is its last
\* waypoint.
C8_EndpointExactness ==
    \A j \in Appended :
        LET path == route_definitions[j]
            raw == raw_frames_data[j]
            L == RawLen(j)
        IN (Len(path) >= 2 /\ ValidParams) =>
              /\ raw.x[1] = AtX(path[1])
              /\ raw.y[1] = AtY(path[1])
              /\ raw.x[L] = AtX(path[Len(path)])
              /\ raw.y[L] = AtY(path[Len(path)])

\* C9: with steps_between = 1 every processed segment s (0-based) has put
\* exactly one moving frame, positioned at the segment's endpoint p[s+1].
MovingFrame(s, n) ==
    s + 1 + dwell_time * (IF s < n - 2 THEN s ELSE n - 2)

C9_SingleStepEndpoint ==
    (pc = "segment" /\ steps_between = 1 /\ dwell_time >= 0) =>
        LET path == route_definitions[r]
            n == Len(path)
        IN /\ Len(route_x_frames) = MovingFrame(i, n) - 1
           /\ \A s \in 0..(i - 1) :
                 /\ route_x_frames[MovingFrame(s, n)] = AtX(path[s + 2])
                 /\ route_y_frames[MovingFrame(s, n)] = AtY(path[s + 2])
                 /\ is_picking_frames[MovingFrame(s, n)] = FALSE

\* C10: a call with steps_between < 1 does not return frame sequences.
C10_RejectsStepsBelowOne ==
    steps_between < 1 => ~(pc = "returned" /\ max_frames > 0)

\* positions of a call of create_multi_route_animation
InCall == pc \in {"call", "route", "segment", "sync", "traces", "frames",
                  "returned", "IndexError", "ValueError"}
\* positions of the tab-2 script
InApp == pc \in {"app_start", "app_current", "app_optimized", "resolved", "KeyError"}

\* C11: a call with a negative dwell_time is rejected before any frame of any
\* route is produced: no frame list ever holds a frame and the call does not
\* return (stated for steps_between >= 1, an otherwise valid call).
C11_RejectsNegativeDwell ==
    (InCall /\ dwell_time < 0 /\ steps_between >= 1) =>
        /\ route_x_frames = <<>>
        /\ \A j \in Appended : RawLen(j) = 0
        /\ ~(pc = "returned" /\ max_frames > 0)

\* C12: a call with an empty route list never fails; it runs to the return
\* with max_frames = 0, no per-route frame lists and no animation frame.
C12_EmptyRoutes ==
    (InCall /\ route_definitions = <<>>) =>
        /\ pc \in {"call", "traces", "frames", "returned"}
        /\ pc = "returned" \/ ENABLED Next
        /\ max_frames = 0
        /\ route_frames_data = <<>>
        /\ raw_frames_data = <<>>
        /\ k = 0
        /\ is_finished = <<>>

C12_Witness ==
    /\ pc = "returned"
    /\ route_definitions = <<>>
    /\ steps_between = 2
    /\ dwell_time = 1
    /\ has_start

\* C13: when node 0 or a node of a route is missing from node_coords the
\* script stops with a KeyError at that lookup: the route's coords list is
\* never built, not even in part, and the script never reaches the point
\* where the routes are handed to the animation.
C13_MissingLocation ==
    InApp =>
        /\ 0 \notin node_ids =>
              /\ pc \in {"app_start", "KeyError"}
              /\ current_route_coords = <<>>
              /\ optimized_route_coords = <<>>
        /\ MissingKey(CURRENT_ROUTE_NODES) =>
              /\ pc \in {"app_start", "app_current", "KeyError"}
              /\ current_route_coords = <<>>
              /\ optimized_route_coords = <<>>
        /\ MissingKey(OPTIMIZED_ROUTE_NODES) =>
              /\ pc # "resolved"
              /\ optimized_route_coords = <<>>
        /\ pc \in {"KeyError", "resolved"} \/ ENABLED Next

C13_Witness ==
    /\ pc = "KeyError"
    /\ 0 \in node_ids
    /\ Len(CURRENT_ROUTE_NODES) = 2
    /\ ~MissingKey(CURRENT_ROUTE_NODES)
    /\ current_route_coords # <<>>
    /\ Len(OPTIMIZED_ROUTE_NODES) = 3
    /\ OPTIMIZED_ROUTE_NODES[1] \in node_ids
    /\ OPTIMIZED_ROUTE_NODES[2] \notin node_ids
    /\ optimized_route_coords = <<>>

\* C14: frame synthesis never works from a fallback: a call that returns
\* frames had a Start row in its layout and coords for every route.
C14_NoFallback ==
    (pc = "returned" /\ max_frames > 0) =>
        /\ has_start
        /\ \A j \in Routes : route_definitions[j] # <<>>

\* the number of frames appended before segment s (0-based) of a path of n
\* waypoints: s moving runs and the dwells of the segments before s
Offset(s, n) ==
    s * steps_between + dwell_time * (IF s < n - 2 THEN s ELSE n - 2)

\* C15: with valid parameters the path [depot, depot] of a route without
\* stops gets exactly steps_between frames, all at the depot, none picking,
\* all with stop index 0.
C15_DegenerateRoute ==
    \A j \in Appended :
        (route_definitions[j] = <<Coord(0), Coord(0)>> /\ ValidParams) =>
            LET raw == raw_frames_data[j]
            IN /\ Len(raw.x) = steps_between
               /\ Len(raw.y) = steps_between
               /\ Len(raw.progress) = steps_between
               /\ Len(raw.picking) = steps_between
               /\ \A kk \in 1..steps_between :
                     /\ raw.x[kk] = AtX(Coord(0))
                     /\ raw.y[kk] = AtY(Coord(0))
                     /\ raw.picking[kk] = FALSE
                     /\ raw.progress[kk] = 0

C15_Witness ==
    \E j \in Appended :
        /\ route_definitions[j] = <<Coord(0), Coord(0)>>
        /\ steps_between = 3
        /\ dwell_time = 1
        /\ RawLen(j) = 3

\* C16: once the last segment of a path of n >= 3 waypoints is processed,
\* stop_number is n - 3: the final segment did not raise it.
C16_NoIncrementOnReturn ==
    (pc = "segment" /\ ValidParams
        /\ Len(route_definitions[r]) >= 3
        /\ i = Len(route_definitions[r]) - 1) =>
        stop_number = Len(route_definitions[r]) - 3

\* C17: with valid parameters, in the frames appended for a path of n >= 2
\* waypoints the steps_between moving frames of every segment are not
\* picking; a segment s < n-2 is followed by exactly dwell_time picking frames
\* at p[s+1]; nothing follows the moving frames of the last segment.
C17_DwellFrames ==
    \A j \in Appended :
        LET path == route_definitions[j]
            n == Len(path)
            raw == raw_frames_data[j]
        IN (n >= 2 /\ ValidParams) =>
              /\ Len(raw.picking) = Offset(n - 2, n) + steps_between
              /\ \A s \in 0..(n - 2) :
                    /\ \A t \in 1..steps_between : raw.picking[Offset(s, n) + t] = FALSE
                    /\ s < n - 2 =>
                          /\ Offset(s + 1, n) = Offset(s, n) + steps_between + dwell_time
                          /\ \A t \in 1..dwell_time :
                                LET f == Offset(s, n) + steps_between + t
                                IN /\ raw.picking[f] = TRUE
                                   /\ raw.x[f] = AtX(path[s + 2])
                                   /\ raw.y[f] = AtY(path[s + 2])

C17_Witness ==
    \E j \in Appended :
        /\ Len(route_definitions[j]) = 4
        /\ steps_between = 2
        /\ dwell_time = 1
        /\ RawLen(j) = 8
        /\ raw_frames_data[j].picking[6] = TRUE
        /\ raw_frames_data[j].picking[8] = FALSE

\* C18: with valid parameters the moving frames of segment s carry stop index
\* max(0, s-1) and the dwell frames after segment s carry stop index s.
C18_StopIndexPerSegment ==
    \A j \in Appended :
        LET n == Len(route_definitions[j])
            raw == raw_frames_data[j]
        IN (n >= 2 /\ ValidParams) =>
              \A s \in 0..(n - 2) :
                  /\ \A t \in 1..steps_between :
                        raw.progress[Offset(s, n) + t] = (IF s > 0 THEN s - 1 ELSE 0)
                  /\ s < n - 2 =>
                        \A t \in 1..dwell_time :
                            raw.progress[Offset(s, n) + steps_between + t] = s

C18_Witness ==
    \E j \in Appended :
        /\ Len(route_definitions[j]) = 5
        /\ steps_between = 2
        /\ dwell_time = 1
        /\ raw_frames_data[j].progress[Offset(2, 5) + 1] = 1
        /\ raw_frames_data[j].progress[Offset(2, 5) + 3] = 2

C20_NoDoneUpToFrame50 ==
    \A j \in 1..Len(done_shown) :
        /\ \A kk \in 1..Len(done_shown[j]) : done_shown[j][kk] => kk - 1 > 50
        /\ max_frames <= 51 =>
              \A kk \in 1..Len(done_shown[j]) : done_shown[j][kk] = FALSE

C20_Witness ==
    /\ pc = "returned"
    /\ max_frames > 52
    /\ \E j \in Routes :
          /\ is_finished[j][1] /\ ~done_shown[j][1]
          /\ is_finished[j][51] /\ ~done_shown[j][51]
          /\ is_finished[j][52] /\ done_shown[j][52]

\* C21: a call with at least one route and max_frames = 0 after the sync loop
\* does not return: the initial markers read frame 0 of an empty list and the
\* call ends with an IndexError.  max_frames is 0 when every route has fewer
\* than two waypoints, and when steps_between = 0 and dwell_time = 0.
C21_NoFramesIndexError ==
    (InCall /\ route_definitions # <<>>) =>
        /\ (Synced /\ max_frames = 0) =>
              /\ pc \in {"traces", "IndexError"}
              /\ \A j \in 1..Len(route_frames_data) : route_frames_data[j].x = <<>>
        /\ pc = "traces" => ENABLED Next
        /\ pc = "IndexError" => max_frames = 0
        /\ ((\A j \in Routes : Len(route_definitions[j]) < 2)
               \/ (steps_between = 0 /\ dwell_time = 0)) =>
              /\ max_frames = 0
              /\ pc \notin {"frames", "returned", "ValueError"}

C21_Witness ==
    /\ pc = "IndexError"
    /\ Len(route_definitions) = 2
    /\ route_definitions[1] = <<>>
    /\ Len(route_definitions[2]) = 4
    /\ steps_between = 0
    /\ dwell_time = 0
    /\ Len(route_frames_data) = 2

\* C22: in every step, optimization_results is None or a table with at least
\* one scenario record holding the five fields; a load_optimization_results
\* call that fails leaves optimization_results unchanged; get_scenario_data
\* changes neither optimization_results nor layout_data, and fails when the
\* results are not loaded or no record has the scenario name.
C22_Step ==
    /\ \/ optimization_results' = NoTable
       \/ /\ ~optimization_results'.none
          /\ Len(optimization_results'.rows) >= 1
          /\ \A j \in 1..Len(optimization_results'.rows) :
                DOMAIN optimization_results'.rows[j] =
                   {"Scenario", "Distance_Optimized", "Distance_Current",
                    "Time_Optimized", "Time_Current"}
    /\ loader_result'.error => optimization_results' = optimization_results
    /\ loader_result'.op = "get_scenario_data" =>
          /\ UNCHANGED <<layout_data, optimization_results>>
          /\ (\/ optimization_results.none
              \/ \A j \in 1..Len(optimization_results.rows) :
                    optimization_results.rows[j].Scenario # loader_result'.arg)
                => (loader_result'.error /\ loader_result'.value = <<>>)

C22_LoaderState == [][C22_Step]_vars

\* a load that fails on a header too close to the end of the sheet, after a
\* load that succeeded
C22_Witness ==
    /\ pc = "loader"
    /\ loader_result.op = "load_optimization_results"
    /\ loader_result.error
    /\ ~optimization_results.none
    /\ Len(optimization_results.rows) >= 1

====
